---------------------------- MODULE Spec2Model ----------------------------
(***************************************************************************)
(* Model of the messaging service of mcp_messaging/server.py:              *)
(* MessagingServer.send_message, send_message_and_wait and get_messages    *)
(* running as concurrent asyncio calls over one shared queue backend.      *)
(*                                                                         *)
(* The calls are coroutines of one event loop: a call runs alone until it  *)
(* suspends.  The queue backend (queue_backends.py) and the Message type   *)
(* (models.py) are not part of the source at hand; their operations are    *)
(* modelled from the specification (Mailbox Store, Notification Hub),      *)
(* which makes enqueue, pop-all and the sweep indivisible and names the    *)
(* wait as the only suspension point of the message path.  A call is       *)
(* therefore one step up to its wait and one step after it; a woken call   *)
(* resumes in a later step than the notify that woke it.                   *)
(*                                                                         *)
(* Time passes in ticks of TickSeconds seconds.  Instants are kept         *)
(* relative to the present: a message carries the age of its timestamp     *)
(* (now - timestamp), a suspended call the time left of its wait.  A woken *)
(* call sees at most one tick before it resumes, and a wait whose time is  *)
(* up ends before the next tick.                                           *)
(***************************************************************************)
EXTENDS Integers, Sequences, FiniteSets, TLC

\* ------------------------------------------------------------------ bounds

\* Number of calls that can be in flight at the same time.
NumCalls == 2

\* Total number of messages created over a run.
MaxMsgs == 3

\* --------------------------------------------------------------- constants

Calls == 1 .. NumCalls

Uids == 1 .. MaxMsgs

\* Strings are sequences of characters, so that trimming is computed.
Blank == <<" ">>

Alice == <<"a">>

Bob == <<"b">>

Carol == <<"c">>

Hi == <<"h">>

ClientIds == {Alice, Bob, Carol, Blank}

MailboxIds == {Alice, Bob}

\* The (sender, recipient, content) triples calls are made with: accepted
\* ones, and the kinds validation rejects.
ValidInputs == {<<Alice, Bob, Hi>>, <<Bob, Alice, Hi>>}

RejectedInputs ==
    {<<Blank, Alice, Hi>>, <<Alice, Blank, Hi>>, <<Alice, Bob, Blank>>,
     <<Bob, Alice, <<>>>>}

\* The validation scenario: Bob sends to Alice, Alice asks Bob and receives,
\* and every operation is also called with arguments validation rejects.
ValidationSends == RejectedInputs \cup {<<Bob, Alice, Hi>>}

ValidationRequests == RejectedInputs \cup {<<Alice, Bob, Hi>>}

ValidationClients == {Alice, Blank}

DEFAULT_CONFIG ==
    [max_tokens |-> 4096,
     max_iterations |-> 10,
     timeouts |-> [send_message_and_wait |-> 180,
                   get_messages |-> 60,
                   message_expiration |-> 300]]

\* One tick, in seconds: the shortest default timeout.
TickSeconds == DEFAULT_CONFIG.timeouts.get_messages

Ticks(seconds) == seconds \div TickSeconds

\* The backend is built with the default expiration window (lines 321-325).
message_expiration_seconds == DEFAULT_CONFIG.timeouts.message_expiration

\* Ages are counted up to the first tick past the expiration window.
AgeCap == Ticks(message_expiration_seconds) + 1

\* str.strip(): leading and trailing white space removed.
RECURSIVE StripLeft(_)
StripLeft(s) ==
    IF s = <<>> THEN <<>>
    ELSE IF Head(s) = " " THEN StripLeft(Tail(s)) ELSE s

RECURSIVE StripRight(_)
StripRight(s) ==
    IF s = <<>> THEN <<>>
    ELSE IF s[Len(s)] = " " THEN StripRight(SubSeq(s, 1, Len(s) - 1)) ELSE s

Strip(s) == StripRight(StripLeft(s))

\* ------------------------------------------------------------------- state

VARIABLES
    configFile,      \* mcp_recipients.json as the lookup finds it
    client_configs,  \* MessagingServer.client_configs
    queues,          \* the backend's mailboxes: client id -> sequence of Message
    pc,              \* where each call is: idle, waiting or notified
    op,              \* the operation each call runs
    args,            \* the arguments of each call
    timeout,         \* the call's local `timeout`, in seconds
    remaining,       \* ticks left of the call's wait
    lag,             \* the call has seen a tick since it was woken
    last,            \* the call that has just returned: arguments and result
    nextUid,         \* history: identity of the next message created
    sentTo,          \* history: uid -> recipient the message was enqueued for
    swept,           \* history: uid -> times the sweep removed the message
    returned,        \* history: uid -> times a result held the message
    hist,            \* history of each call in flight
    lookups,         \* history: client id -> what each of its lookups found
    recipients_files,\* the callbacks of the *_recipients.json files
    emission,        \* the call of fire_callbacks in flight
    tasks,           \* the fire_single_callback tasks of that call
    emitted          \* history: number of calls of fire_callbacks so far

\* The state of the callback dispatcher.
dispatcher == <<recipients_files, emission, tasks, emitted>>

\* The state of the messaging service.
messaging == <<configFile, client_configs, queues, pc, op, args, timeout,
               remaining, lag, last, nextUid, sentTo, swept, returned, hist,
               lookups>>

vars == <<messaging, dispatcher>>

NoConfig == [none |-> TRUE]

NoArgs == [none |-> TRUE]

NoResult == [marker |-> "none"]

NoLast == [op |-> "none"]

\* No call of fire_callbacks is in flight.
NoEmission == [pc |-> "idle"]

\* The history of a call: the uid of the message it created, the number of
\* pops it made, how its wait ended, the uid of the first message whose
\* notify woke it, whether it was the only call popping its mailbox, and the
\* uid of the first message for its own id whose send completed while it
\* was suspended, the configuration file as it was when the call began, and
\* the ticks it has spent suspended in its wait.
NoHist ==
    [sent |-> 0, pops |-> 0, arrived |-> "unset", notifiedBy |-> 0,
     alone |-> TRUE, sentAfter |-> 0, found |-> "unset", elapsed |-> 0]

\* ------------------------------------------------------------ configuration

\* mcp_recipients.json when it is found: my_id and message_config.timeouts.
FileConfig == [my_id |-> Alice, timeouts |-> [get_messages |-> 120]]

\* load_client_config: the file's timeouts over the defaults when the file is
\* found and names this client; the defaults when it is absent, names another
\* client or cannot be read.
load_client_config(client_id) ==
    IF configFile = "present" /\ FileConfig.my_id = client_id
    THEN [max_tokens |-> DEFAULT_CONFIG.max_tokens,
          max_iterations |-> DEFAULT_CONFIG.max_iterations,
          timeouts |-> [DEFAULT_CONFIG.timeouts EXCEPT
                          !.get_messages = FileConfig.timeouts.get_messages]]
    ELSE DEFAULT_CONFIG

\* A cache that is filled again at every call.
CacheReloads(client_id) ==
    [client_configs EXCEPT ![client_id] = load_client_config(client_id)]

\* MessagingServer.get_client_config: the cache after the call.
CacheAfter(client_id) ==
    IF client_configs[client_id] = NoConfig
    THEN [client_configs EXCEPT ![client_id] = load_client_config(client_id)]
    ELSE client_configs

\* MessagingServer.get_client_config: the configuration the call returns.
get_client_config(client_id) == CacheAfter(client_id)[client_id]

\* The lookups made for each client id after a call of get_client_config: one
\* more, with what it found, when load_client_config ran.
LookupsAfter(client_id) ==
    IF client_configs[client_id] = NoConfig
    THEN [lookups EXCEPT ![client_id] = Append(@, configFile)]
    ELSE lookups

\* ------------------------------------------------------------ Mailbox Store

\* A Message; `age` stands for its timestamp (age = now - timestamp) and uid
\* is the identity of the object.
Message(uid, from_client_id, content) ==
    [uid |-> uid, from_client_id |-> from_client_id, content |-> content,
     age |-> 0]

Expired(m) == m.age * TickSeconds > message_expiration_seconds

\* cleanup_expired_messages: every mailbox without its expired messages.
CleanupExpired(q) ==
    [id \in MailboxIds |-> SelectSeq(q[id], LAMBDA m : ~Expired(m))]

\* send_message of the backend: append to the recipient's mailbox.
Enqueue(q, recipient_id, message) ==
    [q EXCEPT ![recipient_id] = Append(@, message)]

\* get_messages(client_id, pop=True) of the backend: what it returns.
Messages(q, client_id) == q[client_id]

\* get_messages(client_id, pop=True) of the backend: the mailboxes it leaves.
PopAll(q, client_id) == [q EXCEPT ![client_id] = <<>>]

\* The mailboxes one tick later.
Older(q) ==
    [id \in MailboxIds |->
        [i \in 1 .. Len(q[id]) |->
            [q[id][i] EXCEPT !.age = IF @ < AgeCap THEN @ + 1 ELSE @]]]

UidsOf(s) == {s[i].uid : i \in 1 .. Len(s)}

\* Number of occurrences of uid u in a sequence of messages.
Occurrences(s, u) == Cardinality({i \in 1 .. Len(s) : s[i].uid = u})

\* Number of occurrences of uid u in all mailboxes.
InMailboxes(q, u) ==
    Occurrences(q[Alice], u) + Occurrences(q[Bob], u)

\* --------------------------------------------------------- Notification Hub

\* A send_message_and_wait that waits on the recipient's id.
WaitsOnRecipient(p) ==
    IF op[p] = "get" THEN args[p].client_id ELSE args[p].recipient_id

\* The client id the wait of call p is registered on (lines 242 and 274).
WaitsOn(p) == IF op[p] = "get" THEN args[p].client_id ELSE args[p].sender_id

\* A notify that wakes one of the calls waiting on client_id.
WokenOne(client_id) ==
    LET waiting == {q \in Calls : pc[q] = "waiting" /\ WaitsOn(q) = client_id}
    IN IF waiting = {} THEN {} ELSE {CHOOSE q \in waiting : TRUE}

\* A wait that may give up at any moment.
TimedOutAtOnce(p) == TRUE

\* wait_for_new_message of the backend returns False: the timeout of the
\* wait of call p has elapsed.
TimedOut(p) == remaining[p] = 0

\* notify_new_message of the backend: the calls a notify of client_id wakes,
\* all that wait on it at this moment.
Woken(client_id) == {q \in Calls : pc[q] = "waiting" /\ WaitsOn(q) = client_id}

\* ------------------------------------------------------------------ results

ErrorSender == [marker |-> "error", text |-> "Sender ID cannot be empty"]

ErrorRecipient == [marker |-> "error", text |-> "Recipient ID cannot be empty"]

ErrorClient == [marker |-> "error", text |-> "Client ID cannot be empty"]

WarningEmpty == [marker |-> "warning", text |-> "Sending empty message"]

Sent(recipient_id) ==
    [marker |-> "ok", text |-> "Message sent successfully", to |-> recipient_id]

NoResponse == [marker |-> "mailbox", text |-> "No response received (queue was empty)"]

TimeoutResult(seconds) ==
    [marker |-> "clock", text |-> "Timeout: No response received", seconds |-> seconds]

NoMessages == [marker |-> "mailbox", text |-> "No messages for you right now."]

\* _format_messages_as_markdown: the header and one block per message, in order.
FormatMessagesAsMarkdown(client_id, messages) ==
    [marker |-> "md", client |-> client_id, count |-> Len(messages),
     messages |-> messages]

\* send_message_and_wait, line 236: the send step's result is an error or a
\* warning.
SendFailed(send_result) == send_result.marker \in {"error", "warning"}

\* A validation that checks the content only.
ValidateSendContentOnly(sender_id, recipient_id, content) ==
    IF Strip(content) = <<>> THEN WarningEmpty ELSE NoResult

\* send_message, lines 198-206: the result of a rejected send, NoResult for
\* an accepted one.
ValidateSend(sender_id, recipient_id, content) ==
    IF Strip(sender_id) = <<>> THEN ErrorSender
    ELSE IF Strip(recipient_id) = <<>> THEN ErrorRecipient
    ELSE IF Strip(content) = <<>> THEN WarningEmpty
    ELSE NoResult

\* The return statement of a rejected send.
ValidateBranch(v) ==
    IF v = ErrorSender THEN "error_sender"
    ELSE IF v = ErrorRecipient THEN "error_recipient"
    ELSE "warning"

\* A send_message_and_wait with one result for every wait that brought nothing.
SendMessageAndWaitResultSame(sender_id, seconds, message_arrived, messages) ==
    IF message_arrived /\ messages # <<>>
    THEN FormatMessagesAsMarkdown(sender_id, messages)
    ELSE NoResponse

\* send_message_and_wait, lines 244-252: what the call returns after its wait.
SendMessageAndWaitResult(sender_id, seconds, message_arrived, messages) ==
    IF message_arrived
    THEN IF messages # <<>>
         THEN FormatMessagesAsMarkdown(sender_id, messages)
         ELSE NoResponse
    ELSE TimeoutResult(seconds)

\* get_messages, lines 276-286: what the call returns after its wait.
GetMessagesResult(client_id, message_arrived, messages) ==
    IF message_arrived
    THEN IF messages # <<>>
         THEN FormatMessagesAsMarkdown(client_id, messages)
         ELSE NoMessages
    ELSE NoMessages

\* The return statement taken after a wait.
BranchAfterWait(message_arrived, messages) ==
    IF message_arrived
    THEN IF messages # <<>> THEN "messages" ELSE "empty"
    ELSE "timeout"

\* ------------------------------------------------------------------ helpers

\* The client id a call is made for: the one whose mailbox it pops.
Self(p) == IF op[p] = "get" THEN args[p].client_id ELSE args[p].sender_id

\* Times the sweep removes uid u at this moment.
SweptCount(u) ==
    Cardinality({<<id, i>> \in MailboxIds \X Uids :
                    /\ i <= Len(queues[id])
                    /\ queues[id][i].uid = u
                    /\ Expired(queues[id][i])})

\* Times uid u occurs in a result.
ReturnedCount(res, u) ==
    IF res.marker = "md" THEN Occurrences(res.messages, u) ELSE 0

\* The state after construction (lines 177-180, 321-325).
Init ==
    /\ configFile = "absent"
    /\ client_configs = [id \in ClientIds |-> NoConfig]
    /\ queues = [id \in MailboxIds |-> <<>>]
    /\ pc = [p \in Calls |-> "idle"]
    /\ op = [p \in Calls |-> "none"]
    /\ args = [p \in Calls |-> NoArgs]
    /\ timeout = [p \in Calls |-> 0]
    /\ remaining = [p \in Calls |-> 0]
    /\ lag = [p \in Calls |-> FALSE]
    /\ last = NoLast
    /\ nextUid = 1
    /\ sentTo = [u \in Uids |-> <<>>]
    /\ swept = [u \in Uids |-> 0]
    /\ returned = [u \in Uids |-> 0]
    /\ hist = [p \in Calls |-> NoHist]
    /\ lookups = [id \in ClientIds |-> <<>>]
    /\ recipients_files = <<>>
    /\ emission = NoEmission
    /\ tasks = <<>>
    /\ emitted = 0

\* A call that suspends takes the first free slot.
FreeSlot(p) == pc[p] = "idle" /\ \A q \in Calls : q < p => pc[q] # "idle"

\* Calls in flight that pop the mailbox of client_id.
Rivals(client_id) == {q \in Calls : pc[q] # "idle" /\ Self(q) = client_id}

\* ------------------------------------------------------------------ actions

\* A send_message that puts the message at the head of the mailbox.
send_message_front(sender_id, recipient_id, content) ==
    LET cleaned == CleanupExpired(queues)
        v == ValidateSend(sender_id, recipient_id, content)
    IN IF v # NoResult
       THEN [result |-> v, branch |-> ValidateBranch(v), queues |-> cleaned,
             uid |-> 0, to |-> <<>>, notified |-> {}]
       ELSE [result |-> Sent(recipient_id), branch |-> "sent",
             queues |-> [cleaned EXCEPT ![recipient_id] =
                           <<Message(nextUid, sender_id, content)>> \o @],
             uid |-> nextUid, to |-> recipient_id,
             notified |-> Woken(recipient_id)]

\* A send_message that enqueues for the sender instead of the recipient.
send_message_to_sender(sender_id, recipient_id, content) ==
    LET cleaned == CleanupExpired(queues)
        v == ValidateSend(sender_id, recipient_id, content)
    IN IF v # NoResult
       THEN [result |-> v, branch |-> ValidateBranch(v), queues |-> cleaned,
             uid |-> 0, to |-> <<>>, notified |-> {}]
       ELSE [result |-> Sent(recipient_id), branch |-> "sent",
             queues |-> Enqueue(cleaned, sender_id,
                                Message(nextUid, sender_id, content)),
             uid |-> nextUid, to |-> recipient_id,
             notified |-> Woken(recipient_id)]

\* A send_message that does not notify.
send_message_no_notify(sender_id, recipient_id, content) ==
    LET cleaned == CleanupExpired(queues)
        v == ValidateSend(sender_id, recipient_id, content)
    IN IF v # NoResult
       THEN [result |-> v, branch |-> ValidateBranch(v), queues |-> cleaned,
             uid |-> 0, to |-> <<>>, notified |-> {}]
       ELSE [result |-> Sent(recipient_id), branch |-> "sent",
             queues |-> Enqueue(cleaned, recipient_id,
                                Message(nextUid, sender_id, content)),
             uid |-> nextUid, to |-> recipient_id, notified |-> {}]

\* A send_message whose notify is made with the message not in the mailbox.
send_message_notify_only(sender_id, recipient_id, content) ==
    LET cleaned == CleanupExpired(queues)
        v == ValidateSend(sender_id, recipient_id, content)
    IN IF v # NoResult
       THEN [result |-> v, branch |-> ValidateBranch(v), queues |-> cleaned,
             uid |-> 0, to |-> <<>>, notified |-> {}]
       ELSE [result |-> Sent(recipient_id), branch |-> "sent",
             queues |-> cleaned,
             uid |-> nextUid, to |-> recipient_id,
             notified |-> Woken(recipient_id)]

\* MessagingServer.send_message, lines 188-224, as one step: the sweep,
\* validation, the message created and enqueued, the notify.  The record
\* holds the result, the mailboxes the call leaves, the uid of the message
\* it enqueued (0 for none) and the calls its notify wakes.
send_message(sender_id, recipient_id, content) ==
    LET cleaned == CleanupExpired(queues)
        v == ValidateSend(sender_id, recipient_id, content)
    IN IF v # NoResult
       THEN [result |-> v, branch |-> ValidateBranch(v), queues |-> cleaned,
             uid |-> 0, to |-> <<>>, notified |-> {}]
       ELSE [result |-> Sent(recipient_id), branch |-> "sent",
             queues |-> Enqueue(cleaned, recipient_id,
                                Message(nextUid, sender_id, content)),
             uid |-> nextUid, to |-> recipient_id,
             notified |-> Woken(recipient_id)]

\* The calls after a notify: the woken ones resume later.
Wake(notified) == [q \in Calls |-> IF q \in notified THEN "notified" ELSE pc[q]]

\* History of the calls in flight after the send `s`.
HistAfterSend(s) ==
    [q \in Calls |->
        IF s.uid = 0 \/ pc[q] = "idle" \/ Self(q) # s.to
        THEN hist[q]
        ELSE [hist[q] EXCEPT
                !.arrived = IF q \in s.notified THEN "yes" ELSE @,
                !.notifiedBy = IF q \in s.notified /\ @ = 0 THEN s.uid ELSE @,
                !.sentAfter = IF @ = 0 THEN s.uid ELSE @]]

\* What the send `s`, made with the arguments `a`, does to the server, the
\* backend and the woken calls.
SendEffects(a, s) ==
    /\ s.uid # 0 => nextUid <= MaxMsgs
    /\ client_configs' = CacheAfter(a.sender_id)
    /\ lookups' = LookupsAfter(a.sender_id)
    /\ queues' = s.queues
    /\ swept' = [u \in Uids |-> swept[u] + SweptCount(u)]
    /\ nextUid' = IF s.uid # 0 THEN nextUid + 1 ELSE nextUid
    /\ sentTo' = IF s.uid # 0 THEN [sentTo EXCEPT ![s.uid] = s.to] ELSE sentTo
    /\ UNCHANGED <<dispatcher, configFile, returned>>

\* A call that returns without having suspended.
Return(name, a, seconds, br, res, h) ==
    last' = [op |-> name, args |-> a, timeout |-> seconds, branch |-> br,
             result |-> res, hist |-> h]

\* The call p returns `res` by the return statement `br` after its wait; its
\* slot is free.
Leave(p, res, br, h) ==
    /\ last' = [op |-> op[p], args |-> args[p], timeout |-> timeout[p],
                branch |-> br, result |-> res, hist |-> h]
    /\ returned' = [u \in Uids |-> returned[u] + ReturnedCount(res, u)]
    /\ pc' = [pc EXCEPT ![p] = "idle"]
    /\ op' = [op EXCEPT ![p] = "none"]
    /\ args' = [args EXCEPT ![p] = NoArgs]
    /\ timeout' = [timeout EXCEPT ![p] = 0]
    /\ remaining' = [remaining EXCEPT ![p] = 0]
    /\ lag' = [lag EXCEPT ![p] = FALSE]
    /\ hist' = [hist EXCEPT ![p] = NoHist]

\* A wait that a notify made before it began ends at once: the call that has
\* just sent to its own id is woken by that send.
SuspendRemembers(p, name, a, seconds, woken, h, uid) ==
    LET own == name = "saw" /\ uid # 0 /\ a.recipient_id = a.sender_id
    IN /\ FreeSlot(p)
       /\ pc' = [Wake(woken) EXCEPT ![p] = IF own THEN "notified" ELSE "waiting"]
       /\ op' = [op EXCEPT ![p] = name]
       /\ args' = [args EXCEPT ![p] = a]
       /\ timeout' = [timeout EXCEPT ![p] = seconds]
       /\ remaining' = [remaining EXCEPT ![p] = Ticks(seconds)]
       /\ lag' = [q \in Calls |-> IF q \in woken \/ q = p THEN FALSE ELSE lag[q]]
       /\ hist' = [q \in Calls |->
                     IF q = p
                     THEN [NoHist EXCEPT !.sent = uid, !.pops = h.pops,
                                          !.found = configFile,
                                          !.notifiedBy = IF own THEN uid ELSE 0,
                                          !.sentAfter = IF own THEN uid ELSE 0]
                     ELSE h.others[q]]
       /\ last' = NoLast

\* The call p suspends in wait_for_new_message(client_id, timeout); the calls
\* that pop the same mailbox are no longer alone.
Suspend(p, name, a, seconds, woken, h, uid) ==
    /\ FreeSlot(p)
    /\ pc' = [Wake(woken) EXCEPT ![p] = "waiting"]
    /\ op' = [op EXCEPT ![p] = name]
    /\ args' = [args EXCEPT ![p] = a]
    /\ timeout' = [timeout EXCEPT ![p] = seconds]
    /\ remaining' = [remaining EXCEPT ![p] = Ticks(seconds)]
    /\ lag' = [q \in Calls |-> IF q \in woken \/ q = p THEN FALSE ELSE lag[q]]
    /\ hist' = LET id == IF name = "get" THEN a.client_id ELSE a.sender_id
               IN [q \in Calls |->
                     IF q = p
                     THEN [NoHist EXCEPT !.sent = uid, !.pops = h.pops,
                                          !.alone = Rivals(id) = {},
                                          !.found = configFile]
                     ELSE IF q \in Rivals(id)
                     THEN [h.others[q] EXCEPT !.alone = FALSE]
                     ELSE h.others[q]]
    /\ last' = NoLast

\* A call of send_message.
SendMessage(i) ==
    LET a == [sender_id |-> i[1], recipient_id |-> i[2], content |-> i[3]]
        s == send_message(a.sender_id, a.recipient_id, a.content)
    IN /\ SendEffects(a, s)
       /\ pc' = Wake(s.notified)
       /\ lag' = [q \in Calls |-> IF q \in s.notified THEN FALSE ELSE lag[q]]
       /\ hist' = HistAfterSend(s)
       /\ Return("send", a, 0, s.branch, s.result, [NoHist EXCEPT !.sent = s.uid])
       /\ UNCHANGED <<op, args, timeout, remaining>>

\* A call of send_message_and_wait up to its wait, lines 226-242: its
\* timeout, the send step, whose error or warning it returns as it is, and
\* the wait on the sender's own id.
StartSendMessageAndWait(i) ==
    LET a == [sender_id |-> i[1], recipient_id |-> i[2], content |-> i[3]]
        seconds == get_client_config(a.sender_id).timeouts.send_message_and_wait
        s == send_message(a.sender_id, a.recipient_id, a.content)
    IN /\ SendEffects(a, s)
       /\ IF SendFailed(s.result)
          THEN /\ Return("saw", a, seconds, s.branch, s.result, NoHist)
               /\ pc' = Wake(s.notified)
               /\ hist' = HistAfterSend(s)
               /\ UNCHANGED <<op, args, timeout, remaining, lag>>
          ELSE \E p \in Calls :
                  Suspend(p, "saw", a, seconds, s.notified,
                          [pops |-> 0, others |-> HistAfterSend(s)], s.uid)

\* A send_message_and_wait that pops the sender's mailbox when its wait times
\* out.
SawTimeoutPops(p) ==
    /\ pc[p] = "waiting"
    /\ op[p] = "saw"
    /\ TimedOut(p)
    /\ queues' = PopAll(queues, args[p].sender_id)
    /\ Leave(p, SendMessageAndWaitResult(args[p].sender_id, timeout[p], FALSE, <<>>),
             BranchAfterWait(FALSE, <<>>), [hist[p] EXCEPT !.arrived = "no"])
    /\ UNCHANGED <<dispatcher, configFile, client_configs, lookups, nextUid, sentTo, swept>>

\* send_message_and_wait, lines 251-252: the wait timed out.
SawTimeout(p) ==
    /\ pc[p] = "waiting"
    /\ op[p] = "saw"
    /\ TimedOut(p)
    /\ Leave(p, SendMessageAndWaitResult(args[p].sender_id, timeout[p], FALSE, <<>>),
             BranchAfterWait(FALSE, <<>>), [hist[p] EXCEPT !.arrived = "no"])
    /\ UNCHANGED <<dispatcher, configFile, client_configs, lookups, queues, nextUid, sentTo, swept>>

\* A send_message_and_wait that takes the recipient's replies only and leaves
\* the other messages in the mailbox.
SawPopRepliesOnly(p) ==
    /\ pc[p] = "notified"
    /\ op[p] = "saw"
    /\ LET FromRecipient(m) == m.from_client_id = args[p].recipient_id
           Other(m) == ~FromRecipient(m)
           messages == SelectSeq(Messages(queues, args[p].sender_id), FromRecipient)
       IN /\ queues' = [queues EXCEPT ![args[p].sender_id] = SelectSeq(@, Other)]
          /\ Leave(p, SendMessageAndWaitResult(args[p].sender_id, timeout[p],
                                               TRUE, messages),
                   BranchAfterWait(TRUE, messages),
                   [hist[p] EXCEPT !.pops = @ + 1])
    /\ UNCHANGED <<dispatcher, configFile, client_configs, lookups, nextUid, sentTo, swept>>

\* send_message_and_wait, lines 244-250: notified, the sender's mailbox is
\* popped.
SawPop(p) ==
    /\ pc[p] = "notified"
    /\ op[p] = "saw"
    /\ LET messages == Messages(queues, args[p].sender_id)
       IN /\ queues' = PopAll(queues, args[p].sender_id)
          /\ Leave(p, SendMessageAndWaitResult(args[p].sender_id, timeout[p],
                                               TRUE, messages),
                   BranchAfterWait(TRUE, messages),
                   [hist[p] EXCEPT !.pops = @ + 1])
    /\ UNCHANGED <<dispatcher, configFile, client_configs, lookups, nextUid, sentTo, swept>>

\* A get_messages that does not validate its client id: an id without a
\* mailbox finds nothing and waits.
StartGetMessagesUnchecked(c) ==
    LET a == [client_id |-> c]
        seconds == get_client_config(c).timeouts.get_messages
        cleaned == CleanupExpired(queues)
        messages == IF c \in MailboxIds THEN Messages(cleaned, c) ELSE <<>>
    IN /\ client_configs' = CacheAfter(c)
       /\ lookups' = LookupsAfter(c)
       /\ swept' = [u \in Uids |-> swept[u] + SweptCount(u)]
       /\ UNCHANGED <<dispatcher, configFile, nextUid, sentTo>>
       /\ queues' = IF c \in MailboxIds THEN PopAll(cleaned, c) ELSE cleaned
       /\ IF messages # <<>>
          THEN /\ Return("get", a, seconds, "first",
                         FormatMessagesAsMarkdown(c, messages),
                         [NoHist EXCEPT !.pops = 1])
               /\ returned' =
                    [u \in Uids |-> returned[u] + Occurrences(messages, u)]
               /\ UNCHANGED <<pc, op, args, timeout, remaining, lag, hist>>
          ELSE /\ \E p \in Calls :
                    Suspend(p, "get", a, seconds, {},
                            [pops |-> 1, others |-> hist], 0)
               /\ UNCHANGED returned

\* A call of get_messages up to its wait, lines 254-274: the timeout, the
\* sweep, validation, the first pop, and the wait when it found nothing.
StartGetMessages(c) ==
    LET a == [client_id |-> c]
        seconds == get_client_config(c).timeouts.get_messages
        cleaned == CleanupExpired(queues)
        messages == Messages(cleaned, c)
        others == [q \in Calls |->
                     IF q \in Rivals(c) THEN [hist[q] EXCEPT !.alone = FALSE]
                     ELSE hist[q]]
    IN /\ client_configs' = CacheAfter(c)
       /\ lookups' = LookupsAfter(c)
       /\ swept' = [u \in Uids |-> swept[u] + SweptCount(u)]
       /\ UNCHANGED <<dispatcher, configFile, nextUid, sentTo>>
       /\ IF Strip(c) = <<>>
          THEN /\ queues' = cleaned
               /\ Return("get", a, seconds, "error_client", ErrorClient, NoHist)
               /\ UNCHANGED <<pc, op, args, timeout, remaining, lag, hist, returned>>
          ELSE /\ queues' = PopAll(cleaned, c)
               /\ IF messages # <<>>
                  THEN /\ Return("get", a, seconds, "first",
                                 FormatMessagesAsMarkdown(c, messages),
                                 [NoHist EXCEPT !.pops = 1,
                                                !.alone = Rivals(c) = {}])
                       /\ returned' =
                            [u \in Uids |-> returned[u] + Occurrences(messages, u)]
                       /\ hist' = others
                       /\ UNCHANGED <<pc, op, args, timeout, remaining, lag>>
                  ELSE /\ \E p \in Calls :
                            Suspend(p, "get", a, seconds, {},
                                    [pops |-> 1, others |-> hist], 0)
                       /\ UNCHANGED returned

\* A get_messages that pops again when its wait times out.
GetTimeoutRechecks(p) ==
    /\ pc[p] = "waiting"
    /\ op[p] = "get"
    /\ TimedOut(p)
    /\ LET messages == Messages(queues, args[p].client_id)
       IN /\ queues' = PopAll(queues, args[p].client_id)
          /\ Leave(p, GetMessagesResult(args[p].client_id, messages # <<>>, messages),
                   BranchAfterWait(FALSE, <<>>),
                   [hist[p] EXCEPT !.arrived = "no", !.pops = @ + 1])
    /\ UNCHANGED <<dispatcher, configFile, client_configs, lookups, nextUid, sentTo, swept>>

\* get_messages, lines 284-286: the wait timed out.
GetTimeout(p) ==
    /\ pc[p] = "waiting"
    /\ op[p] = "get"
    /\ TimedOut(p)
    /\ Leave(p, GetMessagesResult(args[p].client_id, FALSE, <<>>),
             BranchAfterWait(FALSE, <<>>), [hist[p] EXCEPT !.arrived = "no"])
    /\ UNCHANGED <<dispatcher, configFile, client_configs, lookups, queues, nextUid, sentTo, swept>>

\* A get_messages whose second read leaves the messages in the mailbox.
GetPopKeeps(p) ==
    /\ pc[p] = "notified"
    /\ op[p] = "get"
    /\ LET messages == Messages(queues, args[p].client_id)
       IN /\ queues' = queues
          /\ Leave(p, GetMessagesResult(args[p].client_id, TRUE, messages),
                   BranchAfterWait(TRUE, messages),
                   [hist[p] EXCEPT !.pops = @ + 1])
    /\ UNCHANGED <<dispatcher, configFile, client_configs, lookups, nextUid, sentTo, swept>>

\* get_messages, lines 276-283: notified, the mailbox is popped again.
GetPop(p) ==
    /\ pc[p] = "notified"
    /\ op[p] = "get"
    /\ LET messages == Messages(queues, args[p].client_id)
       IN /\ queues' = PopAll(queues, args[p].client_id)
          /\ Leave(p, GetMessagesResult(args[p].client_id, TRUE, messages),
                   BranchAfterWait(TRUE, messages),
                   [hist[p] EXCEPT !.pops = @ + 1])
    /\ UNCHANGED <<dispatcher, configFile, client_configs, lookups, nextUid, sentTo, swept>>

\* A tick of the clock.
Tick ==
    /\ \A p \in Calls : pc[p] = "notified" => ~lag[p]
    /\ \A p \in Calls : pc[p] = "waiting" => remaining[p] > 0
    /\ queues' = Older(queues)
    /\ remaining' = [p \in Calls |->
                       IF pc[p] = "waiting" THEN remaining[p] - 1 ELSE remaining[p]]
    /\ lag' = [p \in Calls |-> pc[p] = "notified"]
    /\ hist' = [p \in Calls |->
                  IF pc[p] = "waiting"
                  THEN [hist[p] EXCEPT !.elapsed = @ + 1]
                  ELSE hist[p]]
    /\ last' = NoLast
    /\ UNCHANGED <<dispatcher, configFile, client_configs, lookups, pc, op, args, timeout, nextUid,
                   sentTo, swept, returned>>

Next ==
    \/ \E i \in ValidInputs : SendMessage(i)
    \/ \E i \in ValidInputs : StartSendMessageAndWait(i)
    \/ \E c \in MailboxIds : StartGetMessages(c)
    \/ \E p \in Calls : SawTimeout(p)
    \/ \E p \in Calls : SawPop(p)
    \/ \E p \in Calls : GetTimeout(p)
    \/ \E p \in Calls : GetPop(p)
    \/ Tick

Spec == Init /\ [][Next]_vars

NextValidation ==
    \/ \E i \in ValidationSends : SendMessage(i)
    \/ \E i \in ValidationRequests : StartSendMessageAndWait(i)
    \/ \E c \in ValidationClients : StartGetMessages(c)
    \/ \E p \in Calls : SawTimeout(p)
    \/ \E p \in Calls : SawPop(p)
    \/ \E p \in Calls : GetTimeout(p)
    \/ \E p \in Calls : GetPop(p)
    \/ Tick

SpecValidation == Init /\ [][NextValidation]_vars

\* Alice receives and sends-and-waits and Bob sends to her, under a clock
\* that does not stop and a loop that runs every call that is ready.
NextLive ==
    \/ SendMessage(<<Bob, Alice, Hi>>)
    \/ StartSendMessageAndWait(<<Alice, Bob, Hi>>)
    \/ StartGetMessages(Alice)
    \/ \E p \in Calls : SawTimeout(p)
    \/ \E p \in Calls : SawPop(p)
    \/ \E p \in Calls : GetTimeout(p)
    \/ \E p \in Calls : GetPop(p)
    \/ Tick

SpecLive ==
    /\ Init
    /\ [][NextLive]_vars
    /\ WF_vars(Tick)
    /\ \A p \in Calls :
          /\ WF_vars(SawTimeout(p))
          /\ WF_vars(SawPop(p))
          /\ WF_vars(GetTimeout(p))
          /\ WF_vars(GetPop(p))

\* What load_client_config can find: no mcp_recipients.json, the file
\* FileConfig, a file that json.load rejects.
ConfigFiles == {"absent", "present", "broken"}

\* mcp_recipients.json is written, replaced or deleted.
ConfigFileChange(found) ==
    /\ found # configFile
    /\ configFile' = found
    /\ last' = NoLast
    /\ UNCHANGED <<dispatcher, client_configs, lookups, queues, pc, op, args,
                   timeout, remaining, lag, nextUid, sentTo, swept, returned, hist>>

\* Alice sends-and-waits, which begins with a send_message of hers, and
\* receives while the configuration file changes under her; nobody writes to
\* her.
NextConfig ==
    \/ StartSendMessageAndWait(<<Alice, Bob, Hi>>)
    \/ StartGetMessages(Alice)
    \/ \E p \in Calls : SawTimeout(p)
    \/ \E p \in Calls : GetTimeout(p)
    \/ Tick
    \/ \E found \in ConfigFiles : ConfigFileChange(found)

SpecConfig == Init /\ [][NextConfig]_vars

\* ---------------------------------------------- the send_message_and_wait tool

\* The values of `expectation` the tool is called with: the three it names
\* and one it does not know.
Expectations == {"response_expected", "no_response", "end_conversation", "maybe"}

\* expectation_text, lines 367-371; one character stands for each text.
expectation_text ==
    [response_expected |-> "R", no_response |-> "N", end_conversation |-> "E"]

\* Line 373: the message, white space, a rule, white space, and the text of
\* the expectation, the one of "response_expected" for an unknown value.
FormattedMessage(message, expectation) ==
    message \o <<" ", "-", " ">>
            \o <<IF expectation \in DOMAIN expectation_text
                 THEN expectation_text[expectation]
                 ELSE expectation_text["response_expected"]>>

\* A tool that waits whatever the expectation.
FireAndForgetNever(expectation) == FALSE

\* Line 376: the call does not wait for a response.
FireAndForget(expectation) == expectation = "no_response"

\* Line 378: what the tool returns for "no_response", the result of
\* send_message under a heading.
MessageSentNoResponse(result) ==
    [marker |-> "no_response", text |-> "Message sent (no response expected)",
     result |-> result]

\* The (sender, recipient, message) triples the tool is called with: a
\* request, a reply with an empty message, a call without a sender.
ToolInputs == {<<Alice, Bob, Hi>>, <<Bob, Alice, <<>>>>, <<Blank, Alice, Hi>>}

\* The tool send_message_and_wait, lines 351-382: for "no_response" a
\* send_message alone (lines 376-378), otherwise
\* MessagingServer.send_message_and_wait up to its wait (line 381).
ToolSendMessageAndWait(i, expectation) ==
    LET formatted_message == FormattedMessage(i[3], expectation)
        a == [sender_id |-> i[1], recipient_id |-> i[2],
              content |-> formatted_message]
        s == send_message(a.sender_id, a.recipient_id, a.content)
    IN IF FireAndForget(expectation)
       THEN /\ SendEffects(a, s)
            /\ pc' = Wake(s.notified)
            /\ lag' = [q \in Calls |-> IF q \in s.notified THEN FALSE ELSE lag[q]]
            /\ hist' = HistAfterSend(s)
            /\ Return("no_response", a, 0, s.branch, MessageSentNoResponse(s.result),
                      [NoHist EXCEPT !.sent = s.uid])
            /\ UNCHANGED <<op, args, timeout, remaining>>
       ELSE StartSendMessageAndWait(<<i[1], i[2], formatted_message>>)

\* Clients that talk through the tool alone.
NextTool ==
    \/ \E i \in ToolInputs, expectation \in Expectations :
          ToolSendMessageAndWait(i, expectation)
    \/ \E p \in Calls : SawTimeout(p)
    \/ \E p \in Calls : SawPop(p)
    \/ Tick

SpecTool == Init /\ [][NextTool]_vars

\* ------------------------------------------------------ replies and pending

\* Alice asks Bob and asks herself; Bob and Carol write to her.
NextReplies ==
    \/ \E sender_id \in {Bob, Carol} : SendMessage(<<sender_id, Alice, Hi>>)
    \/ \E recipient_id \in {Bob, Alice} :
          StartSendMessageAndWait(<<Alice, recipient_id, Hi>>)
    \/ \E p \in Calls : SawTimeout(p)
    \/ \E p \in Calls : SawPop(p)
    \/ Tick

SpecReplies == Init /\ [][NextReplies]_vars

\* ------------------------------------------------------ callback dispatcher

\* The files *_recipients.json in the working directory are at most this many.
MaxFiles == 2

\* fire_callbacks is called at most this many times.
MaxEmits == 2

\* The value of a key of "callbacks" in a recipients file: a list of URLs, a
\* single URL, or no such key.
List(urls) == [kind |-> "list", urls |-> urls]
One(url) == [kind |-> "one", url |-> url]
Absent == [kind |-> "absent"]

\* A file that json.load or config.get rejects (line 97 logs it).
Broken == [broken |-> TRUE]

\* The recipients files of the scenarios: one URL twice in one list, the
\* same URL again in a second file, a URL of the other event type only.
RecipientsFiles ==
    {[broken |-> FALSE, connect |-> List(<<"u1", "u1">>), disconnect |-> One("u2")],
     [broken |-> FALSE, connect |-> List(<<"u2", "u1">>), disconnect |-> Absent],
     Broken}

EventTypes == {"connect", "disconnect", "ping"}

\* What one POST attempt ends in: a 2xx response, httpx.TimeoutException,
\* a response that raise_for_status rejects, any other exception.
Outcomes == {"ok", "timeout", "status", "error"}

\* fire_single_callback, lines 136-138.
max_retries == 3
timeout_seconds == 5
retry_delays == <<1, 2, 4>>

\* load_callbacks_from_config, lines 83-94: extend by a list, append a single
\* value, leave alone when the key is missing.
Extend(urls, value) ==
    IF value.kind = "list" THEN urls \o value.urls
    ELSE IF value.kind = "one" THEN Append(urls, value.url)
    ELSE urls

\* load_callbacks_from_config, lines 76-97: the URLs of one event type over
\* all files, in the order of the files; a file that fails to load adds none.
RECURSIVE Collect(_, _)
Collect(files, event_type) ==
    IF files = <<>> THEN <<>>
    ELSE LET before == Collect(SubSeq(files, 1, Len(files) - 1), event_type)
             config_file == files[Len(files)]
         IN IF config_file.broken THEN before
            ELSE Extend(before, config_file[event_type])

\* A list that is returned as it is.
KeepAll(urls) == urls

\* list(dict.fromkeys(urls)), lines 104-106: the first occurrence of every
\* URL, in order.
RECURSIVE Dedup(_)
Dedup(urls) ==
    IF urls = <<>> THEN <<>>
    ELSE LET before == Dedup(SubSeq(urls, 1, Len(urls) - 1))
             url == urls[Len(urls)]
         IN IF \E k \in 1 .. Len(before) : before[k] = url
            THEN before
            ELSE Append(before, url)

\* load_callbacks_from_config, lines 69-109.
load_callbacks_from_config ==
    [event_type \in {"connect", "disconnect"} |->
        Dedup(Collect(recipients_files, event_type))]

\* callbacks.get(event_type, []), line 115.
UrlsFor(event_type) ==
    IF event_type \in DOMAIN load_callbacks_from_config
    THEN load_callbacks_from_config[event_type]
    ELSE <<>>

\* asyncio.create_task(fire_single_callback(url, ...)), line 126: the task
\* is before its first attempt.
NewTask(url) ==
    [url |-> url, attempt |-> 0, pc |-> "post", outcomes |-> <<>>, delays |-> <<>>]

\* fire_callbacks, lines 112-131: the subscriber list is read, one task is
\* created per URL, and the call suspends in gather until every task is
\* done; without URLs it returns at line 119.
FireCallbacks(event_type) ==
    LET urls == UrlsFor(event_type)
    IN /\ emission.pc # "gathering"
       /\ emitted < MaxEmits
       /\ emitted' = emitted + 1
       /\ tasks' = [k \in 1 .. Len(urls) |-> NewTask(urls[k])]
       /\ emission' = [pc |-> IF urls = <<>> THEN "returned" ELSE "gathering",
                       event_type |-> event_type,
                       files |-> recipients_files,
                       reread |-> /\ emission.pc # "idle"
                                  /\ emission.files # recipients_files]
       /\ UNCHANGED <<messaging, recipients_files>>

\* An attempt is a success when the response is 2xx.
UncheckedStatus(outcome) == outcome \in {"ok", "status"}

\* Lines 143-147: the attempt neither timed out nor failed, and
\* raise_for_status accepted the response.
Succeeded(outcome) == outcome = "ok"

\* A sleep after every failed attempt.
SleepsAlways(attempt) == TRUE

\* Line 157: a failed attempt is followed by a sleep unless it was the last.
SleepsAfter(attempt) == attempt < max_retries - 1

\* fire_single_callback, lines 140-157: attempt number `attempt` of task t
\* ends in `outcome`. A success returns; a failure of any kind is logged and
\* either the sleep retry_delays[attempt] starts or the loop is over.
Post(t, outcome) ==
    LET task == tasks[t]
        failed == [task EXCEPT !.outcomes = Append(@, outcome)]
    IN /\ task.pc = "post"
       /\ tasks' = [tasks EXCEPT ![t] =
             IF Succeeded(outcome)
             THEN [failed EXCEPT !.pc = "done"]
             ELSE IF SleepsAfter(task.attempt)
             THEN [failed EXCEPT !.pc = "sleep",
                                 !.delays = Append(@, retry_delays[task.attempt + 1])]
             ELSE [failed EXCEPT !.pc = "done"]]
       /\ UNCHANGED <<messaging, recipients_files, emission, emitted>>

\* fire_single_callback, lines 140 and 157-161: the sleep of task t is over;
\* the next attempt starts, or range(max_retries) is exhausted.
Sleep(t) ==
    /\ tasks[t].pc = "sleep"
    /\ tasks' = [tasks EXCEPT ![t] =
          IF @.attempt + 1 < max_retries
          THEN [@ EXCEPT !.attempt = @ + 1, !.pc = "post"]
          ELSE [@ EXCEPT !.pc = "done"]]
    /\ UNCHANGED <<messaging, recipients_files, emission, emitted>>

\* fire_callbacks, line 131: every task is done, gather returns and so does
\* the call; its tasks are gone with it.
Gather ==
    /\ emission.pc = "gathering"
    /\ \A t \in DOMAIN tasks : tasks[t].pc = "done"
    /\ emission' = [emission EXCEPT !.pc = "returned"]
    /\ tasks' = <<>>
    /\ UNCHANGED <<messaging, recipients_files, emitted>>

\* A recipients file appears in the working directory. The files are read at
\* line 114 only, so a change while fire_callbacks is suspended is the same
\* as a change right after it has returned.
WriteRecipientsFile(config_file) ==
    /\ emission.pc # "gathering"
    /\ Len(recipients_files) < MaxFiles
    /\ recipients_files' = Append(recipients_files, config_file)
    /\ UNCHANGED <<messaging, emission, tasks, emitted>>

\* The recipients files are deleted.
RemoveRecipientsFiles ==
    /\ emission.pc # "gathering"
    /\ recipients_files # <<>>
    /\ recipients_files' = <<>>
    /\ UNCHANGED <<messaging, emission, tasks, emitted>>

NextCallbacks ==
    \/ \E event_type \in EventTypes : FireCallbacks(event_type)
    \/ \E t \in DOMAIN tasks, outcome \in Outcomes : Post(t, outcome)
    \/ \E t \in DOMAIN tasks : Sleep(t)
    \/ Gather
    \/ \E config_file \in RecipientsFiles : WriteRecipientsFile(config_file)
    \/ RemoveRecipientsFiles

SpecCallbacks == Init /\ [][NextCallbacks]_vars

\* ------------------------------------------------------------------ claims

\* The result in `last` holds messages.
HoldsMessages == last.op \in {"get", "saw"} /\ last.result.marker = "md"

\* The client id the call in `last` was made for.
Own == IF last.op = "get" THEN last.args.client_id ELSE last.args.sender_id

\* The call in `last` returned after a wait.
Waited == last.op \in {"get", "saw"} /\ last.branch \in {"timeout", "empty", "messages"}

\* Uids in strictly increasing order: the order in which the enqueues completed.
InSendOrder(s) == \A i, j \in 1 .. Len(s) : i < j => s[i].uid < s[j].uid

\* C1: a send with non-empty sender and recipient and empty or
\* whitespace-only content returns a warning-marked result and its message is
\* in the recipient's mailbox when it returns.
C1_EmptyContentIsEnqueued ==
    (last.op = "send" /\ last.result.marker = "warning") =>
        \E i \in 1 .. Len(queues[last.args.recipient_id]) :
            /\ queues[last.args.recipient_id][i].from_client_id = last.args.sender_id
            /\ queues[last.args.recipient_id][i].content = last.args.content

\* C2: every mailbox holds its messages in the order their enqueues completed,
\* and a receive or send-and-wait that returns messages returns the whole
\* mailbox of its client id in that order: nothing sent to that id between
\* two returned messages is left out, and nothing stays behind.
C2_MailboxOrderIsSendOrder ==
    /\ \A id \in MailboxIds : InSendOrder(queues[id])
    /\ HoldsMessages =>
          /\ InSendOrder(last.result.messages)
          /\ last.result.count = Len(last.result.messages)
          /\ queues[Own] = <<>>
          /\ \A u \in Uids :
                (/\ u < nextUid
                 /\ sentTo[u] = Own
                 /\ \E v, w \in UidsOf(last.result.messages) : v < u /\ u < w)
                => u \in UidsOf(last.result.messages)

\* C2, its case: a receive returns two or more messages.
C2_Witness ==
    /\ HoldsMessages
    /\ last.op = "get"
    /\ Len(last.result.messages) >= 2

\* C3: every message an accepted send enqueued is in exactly one place: still
\* in its recipient's mailbox, or removed by the sweep, or returned by exactly
\* one call; it is in no other mailbox and no message appears that was not
\* sent.
C3_NoLossNoDuplication ==
    \A u \in Uids :
        IF u < nextUid
        THEN /\ Occurrences(queues[sentTo[u]], u) + swept[u] + returned[u] = 1
             /\ InMailboxes(queues, u) = Occurrences(queues[sentTo[u]], u)
        ELSE InMailboxes(queues, u) + swept[u] + returned[u] = 0

\* C3, its case: a message was returned by one receive and a later receive
\* for the same client id returns no messages.
C3_Witness ==
    /\ last.op = "get"
    /\ last.result = NoMessages
    /\ \E u \in Uids : u < nextUid /\ returned[u] = 1 /\ sentTo[u] = last.args.client_id

\* C4: a message is only ever in the mailbox of the client id it was sent to
\* and is only ever returned to a call made for that id.
C4_NoCrossDelivery ==
    /\ \A id \in MailboxIds : \A i \in 1 .. Len(queues[id]) :
          sentTo[queues[id][i].uid] = id
    /\ HoldsMessages =>
          /\ last.result.client = Own
          /\ \A i \in 1 .. Len(last.result.messages) :
                sentTo[last.result.messages[i].uid] = Own

\* C4, its case: a call returns messages while a call for another client id
\* is suspended and a message for that other id is pending.
C4_Witness ==
    /\ HoldsMessages
    /\ \E p \in Calls : pc[p] = "waiting" /\ Self(p) # Own
    /\ \E id \in MailboxIds : id # Own /\ queues[id] # <<>>

\* C5 as stated: a receive that suspended pops its mailbox a second time when
\* its wait has ended, by notification or by timeout, before it returns.
C5_RecheckAfterEveryWait ==
    (last.op = "get" /\ Waited) => last.hist.pops = 2

\* C5, amended: a receive suspends only after a first pop that found nothing;
\* woken by a notification it pops once more and returns "no messages"
\* exactly when that pop found nothing; when its wait times out it returns
\* "no messages" without another pop.
C5_RecheckAfterNotification ==
    /\ \A p \in Calls :
          (pc[p] # "idle" /\ op[p] = "get") => hist[p].pops = 1
    /\ (last.op = "get" /\ Waited) =>
          /\ last.hist.arrived \in {"yes", "no"}
          /\ last.hist.arrived = "yes" =>
                /\ last.hist.pops = 2
                /\ last.branch \in {"messages", "empty"}
                /\ (last.result = NoMessages) <=> (last.branch = "empty")
          /\ last.hist.arrived = "no" =>
                /\ last.hist.pops = 1
                /\ last.branch = "timeout"
                /\ last.result = NoMessages

\* C5, its case: a receive returns "no messages" after its wait timed out.
C5_Witness ==
    /\ last.op = "get"
    /\ last.branch = "timeout"
    /\ last.hist.arrived = "no"
    /\ last.result = NoMessages

\* C6 as stated: in both operations the result of a wait that timed out
\* differs from the result of a wait that was notified and found the mailbox
\* empty.
C6_OutcomesDistinguished ==
    /\ (last.op = "saw" /\ last.branch = "timeout") =>
          last.result # SendMessageAndWaitResult(Own, last.timeout, TRUE, <<>>)
    /\ (last.op = "get" /\ last.branch = "timeout") =>
          last.result # GetMessagesResult(Own, TRUE, <<>>)

\* C6, amended: send-and-wait returns a timeout result that differs from its
\* result for a notified wait that found the mailbox empty; receive returns
\* the same "no messages" result for both outcomes.
C6_OnlySendAndWaitDistinguishes ==
    /\ (last.op = "saw" /\ last.branch = "timeout") =>
          /\ last.result.marker = "clock"
          /\ last.result # SendMessageAndWaitResult(Own, last.timeout, TRUE, <<>>)
    /\ (last.op = "saw" /\ last.branch = "empty") =>
          /\ last.result = NoResponse
          /\ last.result # SendMessageAndWaitResult(Own, last.timeout, FALSE, <<>>)
    /\ (last.op = "get" /\ last.branch = "timeout") =>
          last.result = GetMessagesResult(Own, TRUE, <<>>)
    /\ (last.op = "get" /\ last.branch = "empty") =>
          last.result = GetMessagesResult(Own, FALSE, <<>>)

\* C6, its case: a receive was notified and found its mailbox empty.
C6_Witness ==
    /\ last.op = "get"
    /\ last.branch = "empty"
    /\ last.hist.arrived = "yes"

\* C7: a receive is never left waiting once a send to its client id has
\* completed during its wait, and when it is the only call popping that
\* mailbox it returns a result that holds the message of that send.
C7_WokenReceiveReturnsMessage ==
    /\ \A p \in Calls :
          (pc[p] = "waiting" /\ op[p] = "get") => hist[p].sentAfter = 0
    /\ (last.op = "get" /\ Waited /\ last.hist.sentAfter # 0 /\ last.hist.alone) =>
          /\ last.branch = "messages"
          /\ last.result.marker = "md"
          /\ last.hist.sentAfter \in UidsOf(last.result.messages)

\* C7, its case: a receive that waited alone on its id returns the message of
\* a send that completed during its wait.
C7_Witness ==
    /\ last.op = "get"
    /\ Waited
    /\ last.hist.alone
    /\ last.hist.sentAfter # 0
    /\ last.result.marker = "md"

C9_NoExpiredMessageReturned ==
    HoldsMessages =>
        \A i \in 1 .. Len(last.result.messages) : ~Expired(last.result.messages[i])

\* C10: the step in which a wait ends by timeout, in receive or in
\* send-and-wait, leaves every mailbox as it was.
C10_TimeoutLeavesMailboxes ==
    [][\A p \in Calls : (SawTimeout(p) \/ GetTimeout(p)) => queues' = queues]_vars

\* C10, its case: a send-and-wait returned the timeout result and a message
\* that was pending for its sender is still in the sender's mailbox.
C10_Witness ==
    /\ last.op = "saw"
    /\ last.branch = "timeout"
    /\ queues[Own] # <<>>

\* C11: a send, alone or as the send step of send-and-wait, whose sender or
\* recipient is empty after trimming returns an error result, creates no
\* message, adds nothing to any mailbox and wakes no waiting call. (A step
\* that sets `last` to a send, or to a send-and-wait without taking a call
\* out of its slot, is such a send.)
C11_RejectedSendTouchesNothing ==
    [][(/\ last'.op \in {"send", "saw"}
        /\ op' = op
        /\ \/ Strip(last'.args.sender_id) = <<>>
           \/ Strip(last'.args.recipient_id) = <<>>)
       => /\ last'.result \in {ErrorSender, ErrorRecipient}
          /\ last'.result.marker = "error"
          /\ nextUid' = nextUid
          /\ pc' = pc
          /\ \A id \in MailboxIds :
                /\ UidsOf(queues'[id]) \subseteq UidsOf(queues[id])
                /\ Len(queues'[id]) <= Len(queues[id])]_vars

\* C11, its case: a send with an empty sender returned its error while a call
\* was waiting on the recipient's id and a message was pending.
C11_Witness ==
    /\ last.op = "send"
    /\ last.result = ErrorSender
    /\ \E p \in Calls : pc[p] = "waiting" /\ WaitsOn(p) = last.args.recipient_id
    /\ \E id \in MailboxIds : queues[id] # <<>>

\* C12: fire_callbacks returns to its caller once the deliveries have been
\* started: the call is never suspended on a delivery that still has an
\* attempt, a retry or a sleep to finish.
C12_EmitDoesNotWait ==
    emission.pc = "gathering" => \A t \in DOMAIN tasks : tasks[t].pc = "done"

\* The task t is over and every one of its attempts failed.
Exhausted(t) ==
    /\ tasks[t].pc = "done"
    /\ \A k \in DOMAIN tasks[t].outcomes : tasks[t].outcomes[k] # "ok"

\* C13: a delivery whose every attempt fails makes exactly 3 attempts, sleeps
\* 1 s after the first and 2 s after the second, does not sleep after the
\* third and is then over, and the call of fire_callbacks returns; a delivery
\* whose first attempt succeeds makes 1 attempt and never sleeps.
C13_ThreeAttemptsOrOne ==
    /\ [] \A t \in DOMAIN tasks :
          /\ Exhausted(t) =>
                /\ Len(tasks[t].outcomes) = 3
                /\ tasks[t].delays = <<1, 2>>
          /\ (Len(tasks[t].outcomes) = 3 /\ tasks[t].outcomes[3] # "ok") =>
                tasks[t].pc = "done"
          /\ (tasks[t].outcomes # <<>> /\ tasks[t].outcomes[1] = "ok") =>
                /\ tasks[t].pc = "done"
                /\ tasks[t].outcomes = <<"ok">>
                /\ tasks[t].delays = <<>>
    /\ [][(emission.pc = "gathering" /\ \A t \in DOMAIN tasks : tasks[t].pc = "done")
            => emission'.pc = "returned"]_vars

\* C13, its case: one delivery gave up after its failures and another
\* succeeded at once.
C13_Witness ==
    /\ \E t \in DOMAIN tasks : Exhausted(t)
    /\ \E t \in DOMAIN tasks : tasks[t].outcomes = <<"ok">>

\* The smaller of two numbers.
Min(a, b) == IF a < b THEN a ELSE b

\* C19: the three kinds of failure are treated alike and the first success
\* ends the delivery: never more than 3 attempts, nothing after a success,
\* a delivery is over exactly when its last attempt succeeded or was the
\* third, and the sleeps are 1 s after the first failure and 2 s after the
\* second whatever the kinds of the failures.
C19_StopsAtFirstSuccess ==
    \A t \in DOMAIN tasks :
        LET outcomes == tasks[t].outcomes
            n == Len(outcomes)
            failures == Cardinality({k \in 1 .. n : outcomes[k] # "ok"})
        IN /\ n <= 3
           /\ \A k \in 1 .. n - 1 : outcomes[k] # "ok"
           /\ tasks[t].pc = "done" <=> (n > 0 /\ (outcomes[n] = "ok" \/ n = 3))
           /\ tasks[t].delays = SubSeq(<<1, 2>>, 1, Min(failures, 2))
           /\ tasks[t].pc = "done" => tasks[t].attempt + 1 = n
           /\ tasks[t].pc = "post" => tasks[t].attempt = n
           /\ tasks[t].pc = "sleep" => tasks[t].attempt + 1 = n

\* C19, its case: a delivery succeeded at its third attempt after two
\* failures of different kinds, another at its second.
C19_Witness ==
    /\ \E t \in DOMAIN tasks :
          /\ tasks[t].pc = "done"
          /\ Len(tasks[t].outcomes) = 3
          /\ tasks[t].outcomes[3] = "ok"
          /\ tasks[t].outcomes[1] # tasks[t].outcomes[2]
    /\ \E t \in DOMAIN tasks :
          /\ tasks[t].pc = "done"
          /\ Len(tasks[t].outcomes) = 2
          /\ tasks[t].outcomes[2] = "ok"

\* The URLs that the files list for the event type.
Configured(files, event_type) ==
    {url \in {"u1", "u2"} :
        \E f \in DOMAIN files :
            /\ ~files[f].broken
            /\ event_type \in {"connect", "disconnect"}
            /\ LET value == files[f][event_type]
               IN \/ value.kind = "one" /\ value.url = url
                  \/ /\ value.kind = "list"
                     /\ \E k \in DOMAIN value.urls : value.urls[k] = url}

\* C20: every call of fire_callbacks starts one delivery for each URL that
\* the recipients files list, at the time of the call, for its event type,
\* and no other: no URL twice, none of the other event type, none at all
\* (and the call returns) when no URL is listed.
C20_OneDeliveryPerUrl ==
    [][\A event_type \in EventTypes :
          FireCallbacks(event_type) =>
             /\ \A j, k \in DOMAIN tasks' : tasks'[j].url = tasks'[k].url => j = k
             /\ {tasks'[k].url : k \in DOMAIN tasks'}
                   = Configured(recipients_files, event_type)
             /\ \A k \in DOMAIN tasks' : tasks'[k] = NewTask(tasks'[k].url)
             /\ tasks' = <<>> <=> emission'.pc = "returned"]_vars

\* C20, its case: a second call found other files than the first and started
\* fewer deliveries than the files list URLs for its event type, while a URL
\* of the other event type is listed too.
C20_Witness ==
    /\ emission.pc = "gathering"
    /\ emission.reread
    /\ Len(tasks) < Len(Collect(emission.files, emission.event_type))
    /\ \E other \in {"connect", "disconnect"} :
          Configured(emission.files, other)
             \ Configured(emission.files, emission.event_type) # {}

\* The configuration of a lookup that found `found` for the client.
Looked(client_id, found) ==
    [max_tokens |-> 4096, max_iterations |-> 10,
     timeouts |-> [send_message_and_wait |-> 180,
                   get_messages |-> IF found = "present" /\ client_id = Alice
                                    THEN 120 ELSE 60,
                   message_expiration |-> 300]]

\* C14: for each client id the configuration is looked up at most once, at
\* the first call that names the id; the result stays in the cache whatever
\* becomes of the file, and every call takes its timeout from the cache. A
\* lookup that finds no file, or one it cannot read, gives the defaults 180 s,
\* 60 s and 300 s, and no call returns an error for it.
C14_LookupOnceThenCached ==
    /\ \A id \in ClientIds :
          /\ Len(lookups[id]) <= 1
          /\ lookups[id] = <<>> <=> client_configs[id] = NoConfig
          /\ lookups[id] # <<>> => client_configs[id] = Looked(id, lookups[id][1])
    /\ \A p \in Calls :
          pc[p] # "idle" =>
             /\ lookups[Self(p)] # <<>>
             /\ timeout[p] = IF op[p] = "get"
                             THEN Looked(Self(p), lookups[Self(p)][1]).timeouts.get_messages
                             ELSE 180
    /\ last.op \in {"get", "saw"} =>
          LET id == IF last.op = "get" THEN last.args.client_id ELSE last.args.sender_id
          IN /\ lookups[id] # <<>>
             /\ last.timeout = IF last.op = "get"
                               THEN Looked(id, lookups[id][1]).timeouts.get_messages
                               ELSE 180
    /\ last.op # "none" => last.result.marker # "error"

\* C14, its case: Alice's configuration was looked up when there was no file,
\* the file is there now, and a receive of hers that started after the
\* change has timed out after the default 60 s.
C14_Witness ==
    /\ lookups[Alice] = <<"absent">>
    /\ configFile = "present"
    /\ last.op = "get"
    /\ last.branch = "timeout"
    /\ last.timeout = 60
    /\ last.hist.found = "present"

\* C15: a notify wakes every call that waits on the client id at that
\* moment: no call stays suspended once a message for its id has been sent
\* during its wait, every woken call was woken by that first message, and it
\* returns by a return statement other than the one of the timeout.
C15_NotifyWakesEveryWaiter ==
    /\ \A p \in Calls :
          /\ pc[p] = "waiting" => hist[p].sentAfter = 0 /\ hist[p].notifiedBy = 0
          /\ pc[p] = "notified" =>
                hist[p].notifiedBy # 0 /\ hist[p].notifiedBy = hist[p].sentAfter
    /\ (last.op \in {"get", "saw"} /\ Waited /\ last.hist.sentAfter # 0) =>
          /\ last.branch \in {"messages", "empty"}
          /\ last.hist.notifiedBy = last.hist.sentAfter

\* C15, its case: two calls waited on the same id and one notify has woken
\* both.
C15_Witness ==
    \E p, q \in Calls :
        /\ p # q
        /\ pc[p] = "notified"
        /\ pc[q] = "notified"
        /\ WaitsOn(p) = WaitsOn(q)
        /\ hist[p].notifiedBy = hist[q].notifiedBy

\* C16: every get_messages and every send_message_and_wait returns. A call
\* returns by the timeout branch when its wait has lasted its whole timeout,
\* never before, and no wait lasts longer than its timeout: 60 s for
\* get_messages, 180 s for send_message_and_wait.
C16_EveryCallReturns ==
    /\ [](/\ \A p \in Calls :
                pc[p] # "idle" =>
                   /\ timeout[p] = IF op[p] = "get" THEN 60 ELSE 180
                   /\ hist[p].elapsed * TickSeconds <= timeout[p]
          /\ Waited =>
                /\ last.hist.elapsed * TickSeconds <= last.timeout
                /\ last.branch = "timeout" =>
                      last.hist.elapsed * TickSeconds = last.timeout
                /\ (last.op = "get" /\ last.branch = "timeout") =>
                      last.result = NoMessages)
    /\ \A p \in Calls : (pc[p] # "idle") ~> (pc[p] = "idle")

\* C16, its case: a get_messages has returned "no messages" after a wait of
\* its whole timeout while a send_message_and_wait is in its third minute.
C16_Witness ==
    /\ last.op = "get"
    /\ last.branch = "timeout"
    /\ last.hist.sentAfter = 0
    /\ \E p \in Calls : pc[p] = "waiting" /\ op[p] = "saw" /\ hist[p].elapsed = 2

\* C17: whenever a notify wakes a call that waits on R, the message whose
\* send made the notify is already in R's mailbox, and it is the newest one
\* there.
C17_NotifyAfterEnqueue ==
    [][\A p \in Calls :
          (pc[p] = "waiting" /\ pc'[p] = "notified") =>
             LET mailbox == queues'[WaitsOn(p)]
             IN /\ hist'[p].notifiedBy = nextUid
                /\ nextUid' = nextUid + 1
                /\ mailbox # <<>>
                /\ mailbox[Len(mailbox)].uid = nextUid
                /\ sentTo'[nextUid] = WaitsOn(p)]_vars

\* C17, its case: a call woken by a notify finds the message of that notify
\* in its mailbox behind an older one.
C17_Witness ==
    \E p \in Calls :
        /\ pc[p] = "notified"
        /\ Len(queues[WaitsOn(p)]) = 2
        /\ queues[WaitsOn(p)][2].uid = hist[p].notifiedBy

\* C18: send_message_and_wait returns without suspending in its wait exactly
\* when its send step reported an empty sender or recipient, and it returns
\* that error; in every other case, empty content included, it suspends.
C18_ReturnsAtOnceOnlyOnError ==
    /\ (last.op = "saw" /\ ~Waited) =>
          /\ Strip(last.args.sender_id) = <<>> \/ Strip(last.args.recipient_id) = <<>>
          /\ last.result \in {ErrorSender, ErrorRecipient}
    /\ \A p \in Calls :
          (pc[p] # "idle" /\ op[p] = "saw") =>
             /\ Strip(args[p].sender_id) # <<>>
             /\ Strip(args[p].recipient_id) # <<>>

\* The text of the expectation at the end of a formatted message.
ExpectationOf(content) == content[Len(content)]

\* Sender or recipient of the arguments is empty after trimming.
BlankIds(a) == Strip(a.sender_id) = <<>> \/ Strip(a.recipient_id) = <<>>

\* C21 as stated: the tool called with "no_response" only sends and never
\* waits; with any other expectation it blocks for a reply or a timeout.
C21_OtherExpectationBlocks ==
    /\ \A p \in Calls : pc[p] # "idle" => ExpectationOf(args[p].content) # "N"
    /\ last.op = "no_response" => ExpectationOf(last.args.content) = "N"
    /\ last.op = "saw" => Waited

\* C21: the tool called with "no_response" only sends: it returns the result
\* of the send under its heading and no call with that expectation is ever
\* suspended. With any other expectation, known or not, it is
\* send_message_and_wait on the formatted message: it blocks for a reply or a
\* timeout unless sender or recipient is empty, and then it returns the
\* validation error at once. The formatted message is never empty, so no call
\* of the tool gets the warning.
C21_NoResponseNeverWaits ==
    /\ \A p \in Calls :
          pc[p] # "idle" =>
             /\ op[p] = "saw"
             /\ ExpectationOf(args[p].content) \in {"R", "E"}
             /\ ~BlankIds(args[p])
    /\ last.op = "no_response" =>
          /\ ExpectationOf(last.args.content) = "N"
          /\ last.result.marker = "no_response"
          /\ last.result.result =
                IF Strip(last.args.sender_id) = <<>> THEN ErrorSender
                ELSE IF Strip(last.args.recipient_id) = <<>> THEN ErrorRecipient
                ELSE Sent(last.args.recipient_id)
          /\ last.hist.sent # 0 <=> ~BlankIds(last.args)
    /\ last.op = "saw" =>
          /\ ExpectationOf(last.args.content) \in {"R", "E"}
          /\ Waited <=> ~BlankIds(last.args)
          /\ ~Waited => last.result \in {ErrorSender, ErrorRecipient}
    /\ last.op \in {"none", "no_response", "saw"}

\* C21, its case: a call with "no_response" has sent an empty message and
\* returned, and its notify has woken a call with "end_conversation" that was
\* blocked.
C21_Witness ==
    /\ last.op = "no_response"
    /\ last.result.result.marker = "ok"
    /\ Len(last.args.content) = 4
    /\ \E p \in Calls :
          /\ pc[p] = "notified"
          /\ ExpectationOf(args[p].content) = "E"
          /\ hist[p].notifiedBy = last.hist.sent

\* C22: a send_message_and_wait that a notify has woken returns everything
\* that is in its sender's mailbox at that moment and leaves the mailbox
\* empty, whoever sent the messages and whenever; it touches no other
\* mailbox. A call that returns without a message having been sent to its id
\* during its wait returns by the timeout, after its whole 180 s, whatever
\* was pending in the mailbox.
C22_WokenCallPopsWholeMailbox ==
    /\ [][\A p \in Calls :
             (pc[p] = "notified" /\ op[p] = "saw" /\ pc'[p] = "idle") =>
                LET id == args[p].sender_id
                IN /\ queues'[id] = <<>>
                   /\ \A other \in MailboxIds \ {id} : queues'[other] = queues[other]
                   /\ last'.op = "saw"
                   /\ queues[id] # <<>> =>
                         /\ last'.result.marker = "md"
                         /\ last'.result.messages = queues[id]
                   /\ queues[id] = <<>> => last'.result = NoResponse]_vars
    /\ []((last.op = "saw" /\ Waited /\ last.hist.sentAfter = 0) =>
             /\ last.branch = "timeout"
             /\ last.hist.elapsed * TickSeconds = 180)

\* C22, its case: Alice asked Bob and the call returns a message of Carol's
\* that was pending before the call began, together with a later one.
C22_Witness ==
    /\ last.op = "saw"
    /\ last.branch = "messages"
    /\ last.args.recipient_id = Bob
    /\ \E k \in DOMAIN last.result.messages :
          /\ last.result.messages[k].from_client_id = Carol
          /\ last.result.messages[k].uid < last.hist.sent
    /\ \E k \in DOMAIN last.result.messages :
          last.result.messages[k].uid > last.hist.sent
    /\ queues[Alice] = <<>>

\* C23: the notify of a call's own send step never wakes that call: a
\* send_message_and_wait that has been woken was woken by a message sent
\* after its own. A call that sent to its own id stays suspended with its
\* message in the mailbox, unless another call popped it, until a later send
\* to the id or the timeout.
C23_OwnNotifyDoesNotWake ==
    /\ \A p \in Calls :
          (pc[p] # "idle" /\ op[p] = "saw") =>
             /\ hist[p].sent # 0
             /\ hist[p].sentAfter # hist[p].sent
             /\ pc[p] = "notified" <=> hist[p].notifiedBy # 0
             /\ pc[p] = "notified" => hist[p].notifiedBy > hist[p].sent
             /\ (pc[p] = "waiting" /\ args[p].recipient_id = args[p].sender_id) =>
                   \/ hist[p].sent \in UidsOf(queues[args[p].sender_id])
                   \/ returned[hist[p].sent] > 0
    /\ (last.op = "saw" /\ Waited) =>
          /\ last.branch # "timeout" => last.hist.notifiedBy > last.hist.sent
          /\ last.branch = "timeout" =>
                /\ last.hist.notifiedBy = 0
                /\ last.hist.elapsed * TickSeconds = 180

\* C23, its case: Alice sent to herself and waited; the call has timed out
\* after its 180 s and her message is still in her mailbox.
C23_Witness ==
    /\ last.op = "saw"
    /\ last.args.recipient_id = last.args.sender_id
    /\ last.branch = "timeout"
    /\ last.hist.sent \in UidsOf(queues[Alice])

\* The messages of a mailbox that are not older than 300 s.
Unexpired(mailbox) ==
    LET Fresh(m) == m.age * TickSeconds <= 300
    IN SelectSeq(mailbox, Fresh)

\* C24: a get_messages whose client id is empty after trimming returns its
\* error; it pops no mailbox, creates no message, and neither registers a
\* wait nor wakes one. All it does to the mailboxes is to remove the
\* expired messages, and the same holds for a send or a send_message_and_wait
\* with an empty sender or recipient. No call with an empty id is ever
\* suspended.
C24_RejectedCallOnlySweeps ==
    /\ [](\A p \in Calls : pc[p] # "idle" => Strip(Self(p)) # <<>>)
    /\ [][(\/ last'.op = "get" /\ Strip(last'.args.client_id) = <<>>
           \/ last'.op \in {"send", "saw"} /\ op' = op /\ BlankIds(last'.args))
          => /\ last'.result.marker = "error"
             /\ last'.op = "get" => last'.result = ErrorClient
             /\ pc' = pc
             /\ op' = op
             /\ remaining' = remaining
             /\ nextUid' = nextUid
             /\ returned' = returned
             /\ \A id \in MailboxIds : queues'[id] = Unexpired(queues[id])]_vars

\* C24, its case: a get_messages with an empty id has returned its error
\* while another call waits and a message is pending; expired messages have
\* been swept.
C24_Witness ==
    /\ last.op = "get"
    /\ last.result = ErrorClient
    /\ \E p \in Calls : pc[p] = "waiting"
    /\ \E id \in MailboxIds : queues[id] # <<>>
    /\ \E u \in Uids : swept[u] > 0

=============================================================================
